---- MODULE Spec2Model ----
(***************************************************************************)
(* Model of the CreatorVault ideas API (backend/src): the six idea         *)
(* endpoints, IdeaService, IdeaRepository and the request schemas.         *)
(*                                                                         *)
(* Text values (title, notes, search, tags) are sequences of one-character *)
(* strings, so that strip, split, join and LIKE are computed, not assumed. *)
(* A request is handled in one step: the session of get_session commits    *)
(* when the handler returns and rolls back when it raises.                 *)
(***************************************************************************)
EXTENDS Integers, Sequences, FiniteSets, TLC

VARIABLES
    ideas,     \* the committed rows of table "ideas"
    nextId,    \* ids handed out so far (uuid4 never repeats)
    clock,     \* last value returned by datetime.now(timezone.utc)
    resp,      \* the request handled last and the response it got
    requests,  \* requests handled so far
    sessions   \* the database sessions of the requests that run concurrently

vars == <<ideas, nextId, clock, resp, requests, sessions>>

----------------------------------------------------------------------------
(* Bounds of the model *)

MaxRequests == 3   \* requests in one behaviour
MaxIdeas == 2      \* ideas created in one behaviour
MaxClock == 6      \* largest timestamp

----------------------------------------------------------------------------
(* Python None / SQL NULL, one per value type *)

None == "None"             \* for enum-valued fields
NoneText == <<"None">>     \* for text fields; "None" is no character
NoneTags == <<NoneText>>   \* for the tags list of a request body
NoneDate == -1             \* for timestamps

Min(a, b) == IF a <= b THEN a ELSE b
Max(a, b) == IF a >= b THEN a ELSE b

----------------------------------------------------------------------------
(* Text helpers: str.strip, str.split(","), ",".join, lower, LIKE *)

IsSpace(c) == c = " "

RECURSIVE LStrip(_)
LStrip(s) == IF s # <<>> /\ IsSpace(Head(s)) THEN LStrip(Tail(s)) ELSE s

RECURSIVE RStrip(_)
RStrip(s) ==
    IF s # <<>> /\ IsSpace(s[Len(s)]) THEN RStrip(SubSeq(s, 1, Len(s) - 1)) ELSE s

Strip(s) == RStrip(LStrip(s))

\* s.split(","): always at least one piece
RECURSIVE SplitComma(_)
SplitComma(s) ==
    IF \E i \in 1..Len(s) : s[i] = ","
    THEN LET i == CHOOSE k \in 1..Len(s) :
                      s[k] = "," /\ \A j \in 1..(k - 1) : s[j] # ","
         IN  <<SubSeq(s, 1, i - 1)>> \o SplitComma(SubSeq(s, i + 1, Len(s)))
    ELSE <<s>>

\* ",".join(tags)
RECURSIVE JoinComma(_)
JoinComma(tags) ==
    IF tags = <<>> THEN <<>>
    ELSE IF Len(tags) = 1 THEN tags[1]
    ELSE tags[1] \o <<",">> \o JoinComma(Tail(tags))

LowerChar(c) == IF c = "A" THEN "a" ELSE IF c = "B" THEN "b" ELSE c
Lower(s) == [i \in 1..Len(s) |-> LowerChar(s[i])]

\* SQL LIKE: % matches any run of characters, _ any one character
RECURSIVE LikeMatch(_, _)
LikeMatch(pat, s) ==
    IF pat = <<>> THEN s = <<>>
    ELSE IF Head(pat) = "%"
         THEN \E k \in 0..Len(s) : LikeMatch(Tail(pat), SubSeq(s, k + 1, Len(s)))
    ELSE IF s = <<>> THEN FALSE
    ELSE (Head(pat) = "_" \/ Head(pat) = Head(s)) /\ LikeMatch(Tail(pat), Tail(s))

\* column.ilike(pattern); NULL ILIKE p is NULL, which a WHERE clause drops
ILike(col, pat) == col # NoneText /\ LikeMatch(Lower(pat), Lower(col))

\* String column.contains(x): col LIKE '%' || x || '%'
Contains(col, x) == col # NoneText /\ LikeMatch(<<"%">> \o x \o <<"%">>, col)

----------------------------------------------------------------------------
(* models/idea.py: the enums and the columns of table "ideas" *)

StageEnum == {"idea", "outline", "draft", "published"}
PriorityEnum == {"high", "medium", "low"}

IdeaColumns ==
    {"id", "user_id", "title", "notes", "stage", "priority", "tags", "due_date",
     "created_at", "updated_at"}

\* stage and priority columns without nullable=False
FlushOk_TitleOnly(row) == row.title # NoneText

\* session.flush(): the INSERT or UPDATE fails on a NULL in a NOT NULL column
FlushOk(row) ==
    /\ row.title # NoneText
    /\ row.stage # None
    /\ row.priority # None

----------------------------------------------------------------------------
(* schemas/idea.py: IdeaCreate and IdeaUpdate. A request body is a function *)
(* from the JSON keys it carries to their values; a key that is absent is  *)
(* unset, a key whose value is None is an explicit null.                   *)

MaxTitleLen == 200
MaxNotesLen == 5000

IdeaFields == {"title", "notes", "stage", "priority", "tags", "due_date"}

Has(body, f) == f \in DOMAIN body

\* IdeaBase.title: str, min_length=1, max_length=200, then validate_title
\* a title field without its max_length
TitleOk_NoMaxLength(v) ==
    /\ v # NoneText
    /\ Len(v) >= 1
    /\ Strip(v) # <<>>

TitleOk(v) ==
    /\ v # NoneText
    /\ Len(v) >= 1
    /\ Len(v) <= MaxTitleLen
    /\ Strip(v) # <<>>

NotesOk(v) == v = NoneText \/ Len(v) <= MaxNotesLen

IdeaCreateValid(body) ==
    /\ Has(body, "title") /\ TitleOk(body.title)
    /\ Has(body, "notes") => NotesOk(body.notes)
    /\ Has(body, "stage") => body.stage \in StageEnum
    /\ Has(body, "priority") => body.priority \in PriorityEnum
    /\ Has(body, "tags") => body.tags # NoneTags

\* the validated IdeaCreate: defaults for unset fields, title stripped,
\* keys that are no field of the schema dropped
IdeaCreate(body) ==
    [title    |-> Strip(body.title),
     notes    |-> IF Has(body, "notes") THEN body.notes ELSE NoneText,
     stage    |-> IF Has(body, "stage") THEN body.stage ELSE "idea",
     priority |-> IF Has(body, "priority") THEN body.priority ELSE "medium",
     tags     |-> IF Has(body, "tags") THEN body.tags ELSE <<>>,
     due_date |-> IF Has(body, "due_date") THEN body.due_date ELSE NoneDate]

\* IdeaUpdate without its validate_title
IdeaUpdateValid_NoTitleValidator(body) ==
    /\ (Has(body, "title") /\ body.title # NoneText) =>
          (Len(body.title) >= 1 /\ Len(body.title) <= MaxTitleLen)
    /\ Has(body, "notes") => NotesOk(body.notes)
    /\ Has(body, "stage") => body.stage \in StageEnum \cup {None}
    /\ Has(body, "priority") => body.priority \in PriorityEnum \cup {None}

\* IdeaUpdate: every field Optional; validate_title runs on a string only
IdeaUpdateValid(body) ==
    /\ (Has(body, "title") /\ body.title # NoneText) => TitleOk(body.title)
    /\ Has(body, "notes") => NotesOk(body.notes)
    /\ Has(body, "stage") => body.stage \in StageEnum \cup {None}
    /\ Has(body, "priority") => body.priority \in PriorityEnum \cup {None}

\* IdeaUpdate declaring the owner as one more field
IdeaUpdateFields_WithOwner == {"title", "notes", "stage", "priority", "tags",
                               "due_date", "user_id"}

\* the fields IdeaUpdate declares: any other key of the body is ignored
IdeaUpdateFields == IdeaFields

\* update_data.model_dump(exclude_unset=True)
IdeaUpdateDump(body) ==
    [f \in (DOMAIN body) \cap IdeaUpdateFields |->
        IF f = "title" /\ body[f] # NoneText THEN Strip(body[f]) ELSE body[f]]

\* a PUT that passes on only the fields the body carries, as a PATCH does
IdeaCreateDump_OnlyGiven(body) ==
    [f \in (DOMAIN body) \cap IdeaFields |->
        IF f = "title" THEN Strip(body[f]) ELSE body[f]]

\* update_idea_full: IdeaUpdate(**update_data.model_dump()) sets all six fields
IdeaCreateDump(body) ==
    LET c == IdeaCreate(body) IN [f \in IdeaFields |-> c[f]]

----------------------------------------------------------------------------
(* repositories/idea_repository.py over a table (a set of rows) *)

\* the lookup of BaseRepository.get_by_id, which has no owner clause
get_by_id_and_user_Unscoped(table, id, user_id) == {r \in table : r.id = id}

\* select(Idea).where(Idea.id == id, Idea.user_id == user_id): 0 or 1 row
get_by_id_and_user(table, id, user_id) ==
    {r \in table : r.id = id /\ r.user_id = user_id}

\* a delete that reports success and leaves the row where it is
delete_by_id_and_user_Soft(table, id, user_id) ==
    [deleted |-> get_by_id_and_user(table, id, user_id) # {},
     table   |-> table]

\* a delete that looks the row up by id alone
delete_by_id_and_user_AnyOwner(table, id, user_id) ==
    [deleted |-> {r \in table : r.id = id} # {},
     table   |-> table \ {r \in table : r.id = id}]

\* delete_by_id_and_user: False when get_by_id_and_user finds no row, else
\* session.delete(idea), flush, True; the result and the table afterwards
delete_by_id_and_user(table, id, user_id) ==
    LET found == get_by_id_and_user(table, id, user_id)
    IN  [deleted |-> found # {},
         table   |-> table \ found]

\* "if tags:" then one .where(Idea.tags.contains([tag])) per tag
TagsClause(row, tags) ==
    (tags # NoneTags /\ tags # <<>>) =>
        \A i \in 1..Len(tags) : Contains(row.tags, tags[i])

\* "if search:" then title ILIKE %search% OR notes ILIKE %search%
SearchClause(row, search) ==
    (search # NoneText /\ search # <<>>) =>
        LET pattern == <<"%">> \o search \o <<"%">>
        IN  ILike(row.title, pattern) \/ ILike(row.notes, pattern)

StageClause(row, stage) == stage # None => row.stage = stage
PriorityClause(row, priority) == priority # None => row.priority = priority

\* the page query without its owner clause
GetByUserWhere_AnyOwner(row, user_id, q) ==
    /\ SearchClause(row, q.search)
    /\ StageClause(row, q.stage)
    /\ PriorityClause(row, q.priority)
    /\ TagsClause(row, q.tags)

\* get_by_user lines 63-86: the owner and the four optional filters
GetByUserWhere(row, user_id, q) ==
    /\ row.user_id = user_id
    /\ SearchClause(row, q.search)
    /\ StageClause(row, q.stage)
    /\ PriorityClause(row, q.priority)
    /\ TagsClause(row, q.tags)

\* a count query that leaves out the priority filter
CountByUserWhere_NoPriority(row, user_id, q) ==
    /\ row.user_id = user_id
    /\ SearchClause(row, q.search)
    /\ StageClause(row, q.stage)
    /\ TagsClause(row, q.tags)

\* count_by_user lines 122-142: "Apply same filters as get_by_user"
CountByUserWhere(row, user_id, q) ==
    /\ row.user_id = user_id
    /\ SearchClause(row, q.search)
    /\ StageClause(row, q.stage)
    /\ PriorityClause(row, q.priority)
    /\ TagsClause(row, q.tags)

\* select(func.count()) ... ; result.scalar() or 0
count_by_user(table, user_id, q) ==
    Cardinality({r \in table : CountByUserWhere(r, user_id, q)})

(* ORDER BY: text compares character by character, NULL sorts as the      *)
(* largest value, rows with equal keys come in any order.                  *)

CharRank(c) ==
    CASE c = " " -> 1 [] c = "%" -> 2 [] c = "," -> 3 [] c = "A" -> 4
      [] c = "B" -> 5 [] c = "_" -> 6 [] c = "a" -> 7 [] c = "b" -> 8
      [] OTHER -> 9

RECURSIVE TextLeq(_, _)
TextLeq(x, y) ==
    IF x = <<>> THEN TRUE
    ELSE IF y = <<>> THEN FALSE
    ELSE IF Head(x) = Head(y) THEN TextLeq(Tail(x), Tail(y))
    ELSE CharRank(Head(x)) < CharRank(Head(y))

\* the enum and user values in alphabetical order
WordRank(w) ==
    CASE w = "draft" -> 1 [] w = "high" -> 2 [] w = "idea" -> 3 [] w = "low" -> 4
      [] w = "medium" -> 5 [] w = "outline" -> 6 [] w = "published" -> 7
      [] w = "u1" -> 8 [] w = "u2" -> 9 [] OTHER -> 10

KeyLeq(col, x, y) ==
    IF col \in {"title", "notes", "tags"}
    THEN y = NoneText \/ (x # NoneText /\ TextLeq(x, y))
    ELSE IF col \in {"stage", "priority", "user_id"}
    THEN WordRank(x) <= WordRank(y)
    ELSE IF col = "due_date"
    THEN y = NoneDate \/ (x # NoneDate /\ x <= y)
    ELSE x <= y

\* getattr(Idea, sort_by, Idea.created_at)
SortColumn(sort_by) == IF sort_by \in IdeaColumns THEN sort_by ELSE "created_at"

\* "asc" (any case) sorts ascending, anything else descending
InOrder(col, sort_order, r1, r2) ==
    IF sort_order \in {"asc", "ASC"}
    THEN KeyLeq(col, r1[col], r2[col])
    ELSE KeyLeq(col, r2[col], r1[col])

\* the orders in which the database may return the rows of S
OrderedBy(S, sort_by, sort_order) ==
    LET n == Cardinality(S)
        col == SortColumn(sort_by)
    IN  {s \in [1..n -> S] :
            /\ \A i, j \in 1..n : i # j => s[i] # s[j]
            /\ \A i \in 1..(n - 1) : InOrder(col, sort_order, s[i], s[i + 1])}

\* the offset applied and the limit left out
LimitOffset_NoLimit(s, limit, offset) ==
    SubSeq(s, Max(offset, 0) + 1, Len(s))

\* query.limit(limit).offset(offset) applied to the ordered rows
LimitOffset(s, limit, offset) ==
    LET first == Max(offset, 0) + 1
        last == Min(Max(offset, 0) + limit, Len(s))
    IN  SubSeq(s, first, last)

\* the lists get_by_user may return
get_by_user(table, user_id, q) ==
    {LimitOffset(s, q.limit, q.offset) :
        s \in OrderedBy({r \in table : GetByUserWhere(r, user_id, q)},
                        q.sort, q.order)}

----------------------------------------------------------------------------
(* api/deps.py and the framework in front of a handler *)

Users == {"u1", "u2"}

\* What a request carries as credentials: a token decode_jwt_token accepts
\* (ok) with its "sub" claim, or one of the failures. "bearer" is the status
\* the installed HTTPBearer(auto_error=True) gives a request without
\* credentials: 403 or 401, depending on the framework's version.
TokenKinds == {"valid", "missing", "malformed", "bad_signature", "expired",
               "no_sub", "empty_sub"}

Credentials(ok, sub, kind, bearer) ==
    [ok |-> ok, sub |-> sub, kind |-> kind, bearer |-> bearer]

Tokens ==
    {Credentials(TRUE, u, "valid", 401) : u \in Users}
        \cup {Credentials(FALSE, "u1", "bad_signature", 401)}

\* get_current_user: the subject, or an error raised by the dependency
Authenticated(token) == token.ok

\* the error of a request that is not authenticated: bearer_scheme answers a
\* request without credentials itself (the hint comes with its 401 only);
\* decode_jwt_token raises 401 with the hint on a JWTError (malformed, wrong
\* signature, expired) and on a missing or empty "sub"
AuthError(token) ==
    IF token.kind = "missing"
    THEN [status |-> token.bearer, www_authenticate |-> token.bearer = 401]
    ELSE [status |-> 401, www_authenticate |-> TRUE]

\* The framework resolves get_current_user, then validates path, query and
\* body, and only then calls the handler: 401, else 422, else the handler.
FrameworkStatus(token, valid) ==
    IF ~Authenticated(token) THEN AuthError(token).status
    ELSE IF ~valid THEN 422
    ELSE 0

\* the identity check left out of the handlers
Forbidden_Unchecked(user_id, current_user) == FALSE

\* the first statement of every idea handler: "if user_id != current_user"
Forbidden(user_id, current_user) == user_id # current_user

----------------------------------------------------------------------------
(* The response of a request, with the calls it made on the repository *)

DefaultQuery ==
    [limit |-> 20, offset |-> 0, search |-> NoneText, stage |-> None,
     priority |-> None, tags |-> NoneText, sort |-> "created_at", order |-> "desc"]

Reply(op, token, user_id, idea_id, status) ==
    [op           |-> op,
     current_user |-> IF Authenticated(token) THEN token.sub ELSE None,
     user_id      |-> user_id,
     idea_id      |-> idea_id,
     status       |-> status,
     www_authenticate |-> ~Authenticated(token) /\ AuthError(token).www_authenticate,
     items        |-> <<>>,
     total        |-> 0,
     limit        |-> 0,
     offset       |-> 0,
     has_more     |-> FALSE,
     query        |-> DefaultQuery,
     reads        |-> 0,
     writes       |-> 0]

\* IdeaResponse.model_validate(idea), from_attributes=True: the attributes of
\* the row, the title through IdeaBase.validate_title
IdeaResponse(row) == [row EXCEPT !.title = Strip(row.title)]

\* datetime.now(timezone.utc) read again within the same call, right after a
\* reading of t: the same microsecond or a later one
Now(t) == {u \in {t, t + 1} : u <= MaxClock}

\* datetime.now(timezone.utc) read by a request when the last reading, made by
\* an earlier request, was t: requests are further apart than the clock's
\* resolution, so the reading is later
NowLater(t) == {u \in {t + 1} : u <= MaxClock}

----------------------------------------------------------------------------
(* services/idea_service.py *)

\* the owner taken from the body when the client sends one
CreateOwner_FromBody(current_user, body) ==
    IF "user_id" \in DOMAIN body THEN body.user_id ELSE current_user

\* create_idea line 39, user_id=user_id: the owner is the caller the endpoint
\* passed, whatever the body carries
CreateOwner(current_user, body) == current_user

\* create_idea lines 36-48: the Idea instance
NewIdea(id, user_id, data, t1, t2) ==
    [id         |-> id,
     user_id    |-> user_id,
     title      |-> data.title,
     notes      |-> data.notes,
     stage      |-> data.stage,
     priority   |-> data.priority,
     tags       |-> IF data.tags # <<>> THEN JoinComma(data.tags) ELSE <<>>,
     due_date   |-> data.due_date,
     created_at |-> t1,
     updated_at |-> t2]

\* an update that leaves updated_at as it was
SetAttrs_NoTimestamp(row, update_dict, t) ==
    [f \in DOMAIN row |->
        IF f \in DOMAIN update_dict
        THEN IF f = "tags"
             THEN IF update_dict[f] = NoneTags THEN NoneText
                  ELSE IF update_dict[f] # <<>> THEN JoinComma(update_dict[f])
                  ELSE <<>>
             ELSE update_dict[f]
        ELSE row[f]]

\* an update that clears the notes the patch does not mention
SetAttrs_ClearsUnset(row, update_dict, t) ==
    [f \in DOMAIN row |->
        IF f = "updated_at" THEN t
        ELSE IF f \in DOMAIN update_dict
        THEN IF f = "tags"
             THEN IF update_dict[f] = NoneTags THEN NoneText
                  ELSE IF update_dict[f] # <<>> THEN JoinComma(update_dict[f])
                  ELSE <<>>
             ELSE update_dict[f]
        ELSE IF f = "notes" THEN NoneText
        ELSE row[f]]

\* update_idea lines 177-188: setattr for every dumped field, then updated_at
SetAttrs(row, update_dict, t) ==
    [f \in DOMAIN row |->
        IF f = "updated_at" THEN t
        ELSE IF f \in DOMAIN update_dict
        THEN IF f = "tags"
             THEN IF update_dict[f] = NoneTags THEN NoneText
                  ELSE IF update_dict[f] # <<>> THEN JoinComma(update_dict[f])
                  ELSE <<>>
             ELSE update_dict[f]
        ELSE row[f]]

\* list_ideas line 111
ClampLimit(limit) == Max(1, Min(limit, 100))

\* Variant: the lookup result tells an idea of another owner (403) from a missing one (404).
NotFound_LeaksExistence(table, idea_id) ==
    IF \E row \in table : row.id = idea_id THEN 403 ELSE 404

\* idea_service.py 71-78, 170-175, 208-215: when get_by_id_and_user /
\* delete_by_id_and_user finds nothing the service raises HTTPException 404
\* "Idea {idea_id} not found", whatever the table holds under that id.
NotFound(table, idea_id) == 404

----------------------------------------------------------------------------
(* api/v1/endpoints/ideas.py: one action per endpoint *)

Rejected(r) ==
    /\ resp' = r
    /\ UNCHANGED <<ideas, nextId, clock>>

\* POST /{user_id}/ideas
create_idea(token, user_id, body) ==
    LET early == FrameworkStatus(token, IdeaCreateValid(body))
        re == Reply("POST", token, user_id, 0, early)
    IN  /\ nextId <= MaxIdeas
        /\ IF early # 0 THEN Rejected(re)
           ELSE IF Forbidden(user_id, token.sub)
           THEN Rejected([re EXCEPT !.status = 403])
           ELSE \E t1 \in NowLater(clock) : \E t2 \in Now(t1) :
                  LET idea == NewIdea(nextId, CreateOwner(token.sub, body),
                                      IdeaCreate(body), t1, t2)
                  IN  /\ ideas' = ideas \cup {idea}
                      /\ nextId' = nextId + 1
                      /\ clock' = t2
                      /\ resp' = [re EXCEPT !.status = 201,
                                            !.idea_id = idea.id,
                                            !.items = <<IdeaResponse(idea)>>,
                                            !.writes = 1,
                                            !.reads = 1]

\* list_ideas lines 103-110: the constraints on the query parameters
\* a limit parameter without its Query(ge=1, le=100)
LimitOk_Any(limit) == TRUE

LimitOk(limit) == limit >= 1 /\ limit <= 100

\* an offset parameter without its Query(ge=0)
OffsetOk_Any(offset) == TRUE

OffsetOk(offset) == offset >= 0

QueryValid(q) ==
    /\ LimitOk(q.limit)
    /\ OffsetOk(q.offset)
    /\ q.stage \in StageEnum \cup {None}
    /\ q.priority \in PriorityEnum \cup {None}
    /\ q.sort \in {"created_at", "updated_at", "title", "priority", "stage"}
    /\ q.order \in {"asc", "desc"}

\* list_ideas line 149: the tags parameter split at commas, each piece stripped
TagsList(tags) ==
    IF tags # NoneText /\ tags # <<>>
    THEN LET parts == SplitComma(tags)
         IN  [i \in 1..Len(parts) |-> Strip(parts[i])]
    ELSE NoneTags

\* GET /{user_id}/ideas
list_ideas(token, user_id, q) ==
    LET early == FrameworkStatus(token, QueryValid(q))
        re == [Reply("LIST", token, user_id, 0, early) EXCEPT !.query = q]
    IN  /\ UNCHANGED <<ideas, nextId, clock>>
        /\ IF early # 0 THEN resp' = re
           ELSE IF Forbidden(user_id, token.sub)
           THEN resp' = [re EXCEPT !.status = 403]
           ELSE LET sq == [q EXCEPT !.limit = ClampLimit(q.limit),
                                    !.tags = TagsList(q.tags)]
                IN  \E page \in get_by_user(ideas, token.sub, sq) :
                      LET total == count_by_user(ideas, token.sub, sq)
                      IN  resp' = [re EXCEPT
                                      !.status = 200,
                                      !.items = [i \in 1..Len(page) |->
                                                    IdeaResponse(page[i])],
                                      !.total = total,
                                      !.limit = sq.limit,
                                      !.offset = sq.offset,
                                      !.has_more = (sq.offset + Len(page)) < total,
                                      !.reads = 2]

\* GET /{user_id}/ideas/{idea_id}
get_idea(token, user_id, idea_id) ==
    LET early == FrameworkStatus(token, TRUE)
        re == Reply("GET", token, user_id, idea_id, early)
    IN  /\ UNCHANGED <<ideas, nextId, clock>>
        /\ IF early # 0 THEN resp' = re
           ELSE IF Forbidden(user_id, token.sub)
           THEN resp' = [re EXCEPT !.status = 403]
           ELSE LET found == get_by_id_and_user(ideas, idea_id, token.sub)
                IN  IF found = {}
                    THEN resp' = [re EXCEPT !.status = NotFound(ideas, idea_id), !.reads = 1]
                    ELSE \E idea \in found :
                           resp' = [re EXCEPT !.status = 200,
                                              !.items = <<IdeaResponse(idea)>>,
                                              !.reads = 1]

\* IdeaService.update_idea, reached from PATCH and from PUT
update_idea(re, idea_id, user_id, update_dict) ==
    LET found == get_by_id_and_user(ideas, idea_id, user_id)
    IN  IF found = {}
        THEN Rejected([re EXCEPT !.status = NotFound(ideas, idea_id), !.reads = 1])
        ELSE \E idea \in found : \E t \in NowLater(clock) :
               LET updated == SetAttrs(idea, update_dict, t)
               IN  IF ~FlushOk(updated)
                   THEN /\ resp' = [re EXCEPT !.status = 500, !.reads = 1,
                                              !.writes = 1]
                        /\ clock' = t
                        /\ UNCHANGED <<ideas, nextId>>
                   ELSE /\ ideas' = (ideas \ {idea}) \cup {updated}
                        /\ clock' = t
                        /\ resp' = [re EXCEPT !.status = 200,
                                              !.items = <<IdeaResponse(updated)>>,
                                              !.reads = 2,
                                              !.writes = 1]
                        /\ UNCHANGED nextId

\* PATCH /{user_id}/ideas/{idea_id}
update_idea_partial(token, user_id, idea_id, body) ==
    LET early == FrameworkStatus(token, IdeaUpdateValid(body))
        re == Reply("PATCH", token, user_id, idea_id, early)
    IN  IF early # 0 THEN Rejected(re)
        ELSE IF Forbidden(user_id, token.sub)
        THEN Rejected([re EXCEPT !.status = 403])
        ELSE update_idea(re, idea_id, token.sub, IdeaUpdateDump(body))

\* PUT /{user_id}/ideas/{idea_id}
update_idea_full(token, user_id, idea_id, body) ==
    LET early == FrameworkStatus(token, IdeaCreateValid(body))
        re == Reply("PUT", token, user_id, idea_id, early)
    IN  IF early # 0 THEN Rejected(re)
        ELSE IF Forbidden(user_id, token.sub)
        THEN Rejected([re EXCEPT !.status = 403])
        ELSE update_idea(re, idea_id, token.sub, IdeaCreateDump(body))

\* DELETE /{user_id}/ideas/{idea_id}
delete_idea(token, user_id, idea_id) ==
    LET early == FrameworkStatus(token, TRUE)
        re == Reply("DELETE", token, user_id, idea_id, early)
    IN  IF early # 0 THEN Rejected(re)
        ELSE IF Forbidden(user_id, token.sub)
        THEN Rejected([re EXCEPT !.status = 403])
        ELSE LET d == delete_by_id_and_user(ideas, idea_id, token.sub)
             IN  IF ~d.deleted
                 THEN Rejected([re EXCEPT !.status = NotFound(ideas, idea_id), !.reads = 1])
                 ELSE /\ ideas' = d.table
                      /\ resp' = [re EXCEPT !.status = 204, !.reads = 1,
                                            !.writes = 1]
                      /\ UNCHANGED <<nextId, clock>>

----------------------------------------------------------------------------
(* The requests of specification Spec *)

IdeaIds == 1..MaxIdeas

CreateBodies ==
    {[title |-> <<"a">>],
     [title |-> <<" ", "A", "b">>, notes |-> <<"b">>, stage |-> "draft",
      priority |-> "low", tags |-> <<<<"a">>, <<"b">>>>, due_date |-> 1,
      user_id |-> "u2"],
     [title |-> <<" ">>]}

PatchBodies ==
    {[priority |-> "high"],
     [title |-> <<"b", " ">>, user_id |-> "u2"],
     [notes |-> NoneText, tags |-> <<<<"b">>>>],
     [stage |-> "outline", due_date |-> 0],
     [title |-> NoneText],
     [stage |-> "bogus"],
     <<>>}

ListQueries ==
    {DefaultQuery,
     [DefaultQuery EXCEPT !.offset = -1],
     [DefaultQuery EXCEPT !.limit = 101]}

NoReply ==
    [Reply("NONE", Credentials(FALSE, "u1", "missing", 401), None, 0, 0)
        EXCEPT !.www_authenticate = FALSE]

Init ==
    /\ ideas = {}
    /\ nextId = 1
    /\ clock = 0
    /\ resp = NoReply
    /\ requests = 0
    /\ sessions = <<>>

\* A request that changed nothing (a read, a rejection) ends the behaviour:
\* it leaves the state it found, from which every continuation is explored.
Quiet(r) == r.op \in {"GET", "LIST"} \/ r.status \in {401, 403, 404, 422}

\* one more request is handled, from its session's start to its close
Handled ==
    /\ requests < MaxRequests
    /\ ~Quiet(resp)
    /\ requests' = requests + 1
    /\ UNCHANGED sessions

Post == Handled /\ \E token \in Tokens, user_id \in Users, body \in CreateBodies :
            create_idea(token, user_id, body)

List == Handled /\ \E token \in Tokens, user_id \in Users, q \in ListQueries :
            list_ideas(token, user_id, q)

Get == Handled /\ \E token \in Tokens, user_id \in Users, idea_id \in IdeaIds :
            get_idea(token, user_id, idea_id)

Patch == Handled /\ \E token \in Tokens, user_id \in Users, idea_id \in IdeaIds,
            body \in PatchBodies :
            update_idea_partial(token, user_id, idea_id, body)

Put == Handled /\ \E token \in Tokens, user_id \in Users, idea_id \in IdeaIds,
          body \in CreateBodies :
            update_idea_full(token, user_id, idea_id, body)

Delete == Handled /\ \E token \in Tokens, user_id \in Users, idea_id \in IdeaIds :
            delete_idea(token, user_id, idea_id)

Next == Post \/ List \/ Get \/ Patch \/ Put \/ Delete

Spec == Init /\ [][Next]_vars

----------------------------------------------------------------------------
(* Specification SpecList: users create, update and delete their own ideas *)
(* and list them with every combination of a few values of each parameter. *)

ListCreateBodies ==
    {[title |-> <<"b">>],
     [title |-> <<"A", "b">>, notes |-> <<"b">>, stage |-> "draft",
      priority |-> "high", tags |-> <<<<"a">>, <<"b">>>>],
     [title |-> <<"B">>, notes |-> <<"a">>, priority |-> "high",
      tags |-> <<<<"a">>>>]}

ListPatchBodies ==
    {[stage |-> "draft", tags |-> <<<<"b">>>>]}

\* every combination of the filters (the search string "_" occurs in no
\* title and in no notes) with two orderings and two pages
FilterQueries ==
    {[limit |-> pg[1], offset |-> pg[2], search |-> se, stage |-> st,
      priority |-> pr, tags |-> tg, sort |-> so[1], order |-> so[2]] :
        pg \in {<<100, 0>>, <<1, 1>>},
        se \in {NoneText, <<"a">>, <<"_">>},
        st \in {None, "draft"},
        pr \in {None, "high"},
        tg \in {NoneText, <<"a">>, <<"a", ",", " ", "b">>},
        so \in {<<"created_at", "desc">>, <<"title", "asc">>}}

\* every combination of limit and offset, in and out of range
PageQueries ==
    {[DefaultQuery EXCEPT !.limit = l, !.offset = o] :
        l \in {0, 1, 2, 100, 101}, o \in {-1, 0, 1, 2}}

OwnTokens == {t \in Tokens : t.ok}

\* u1 creates any of the bodies, u2 the one that passes every filter
ListCreates ==
    {<<t, b>> \in OwnTokens \X ListCreateBodies :
        t.sub = "u2" => "stage" \in DOMAIN b}

LPost == Handled /\ \E c \in ListCreates : create_idea(c[1], c[1].sub, c[2])

LPatch == Handled /\ \E token \in OwnTokens, idea_id \in IdeaIds,
             body \in ListPatchBodies :
            update_idea_partial(token, token.sub, idea_id, body)

LDelete == Handled /\ \E token \in OwnTokens, idea_id \in IdeaIds :
            delete_idea(token, token.sub, idea_id)

LList == Handled /\ \E token \in OwnTokens, q \in FilterQueries \cup PageQueries :
            list_ideas(token, token.sub, q)

NextList == LPost \/ LPatch \/ LDelete \/ LList

SpecList == Init /\ [][NextList]_vars

----------------------------------------------------------------------------
(* Specification SpecFields: users create, patch and replace their own     *)
(* ideas with bodies whose title, stage and priority are valid, invalid,   *)
(* null or absent.                                                         *)

FieldCreateBodies ==
    {[title |-> <<"a">>],
     [title |-> <<" ", "b">>, notes |-> <<"b">>, stage |-> "draft",
      priority |-> "low", tags |-> <<<<"a">>, <<"b">>>>, due_date |-> 1],
     [title |-> <<"a">>, stage |-> "bogus"],
     [title |-> <<"a">>, stage |-> None],
     [title |-> <<"a">>, priority |-> "bogus"],
     [title |-> <<"a">>, priority |-> None],
     [title |-> <<" ">>],
     [title |-> <<>>],
     [title |-> NoneText],
     [stage |-> "draft"]}

FieldPatchBodies ==
    {[stage |-> "outline", title |-> <<" ", "b">>],
     [priority |-> "high"],
     [stage |-> None],
     [priority |-> None],
     [stage |-> "published", priority |-> None],
     [stage |-> "bogus"],
     [priority |-> "bogus"],
     [title |-> NoneText],
     [title |-> <<" ">>],
     [title |-> <<>>]}

FPost == Handled /\ \E token \in OwnTokens, body \in FieldCreateBodies :
            create_idea(token, token.sub, body)

FPatch == Handled /\ \E token \in OwnTokens, idea_id \in IdeaIds,
             body \in FieldPatchBodies :
            update_idea_partial(token, token.sub, idea_id, body)

FPut == Handled /\ \E token \in OwnTokens, idea_id \in IdeaIds,
           body \in FieldCreateBodies :
            update_idea_full(token, token.sub, idea_id, body)

NextFields == FPost \/ FPatch \/ FPut

SpecFields == Init /\ [][NextFields]_vars

----------------------------------------------------------------------------
(* Specification SpecAuth: every endpoint is called with valid credentials *)
(* and with each kind of credentials get_current_user refuses.             *)

AuthTokens ==
    Tokens
        \cup {Credentials(FALSE, u, k, 401) :
                u \in Users, k \in {"malformed", "bad_signature", "expired"}}
        \cup {Credentials(FALSE, None, "no_sub", 401),
              Credentials(FALSE, "", "empty_sub", 401)}
        \cup {Credentials(FALSE, None, "missing", b) : b \in {401, 403}}

AuthCreateBodies == {[title |-> <<"a">>], [title |-> <<" ">>]}

AuthPatchBodies == {[priority |-> "high"], [stage |-> "bogus"]}

AuthListQueries == {DefaultQuery, [DefaultQuery EXCEPT !.limit = 101]}

APost == Handled /\ \E token \in AuthTokens, user_id \in Users,
            body \in AuthCreateBodies :
            create_idea(token, user_id, body)

AList == Handled /\ \E token \in AuthTokens, user_id \in Users,
            q \in AuthListQueries :
            list_ideas(token, user_id, q)

AGet == Handled /\ \E token \in AuthTokens, user_id \in Users,
           idea_id \in IdeaIds :
            get_idea(token, user_id, idea_id)

APatch == Handled /\ \E token \in AuthTokens, user_id \in Users,
             idea_id \in IdeaIds, body \in AuthPatchBodies :
            update_idea_partial(token, user_id, idea_id, body)

APut == Handled /\ \E token \in AuthTokens, user_id \in Users,
           idea_id \in IdeaIds, body \in AuthCreateBodies :
            update_idea_full(token, user_id, idea_id, body)

ADelete == Handled /\ \E token \in AuthTokens, user_id \in Users,
              idea_id \in IdeaIds :
            delete_idea(token, user_id, idea_id)

NextAuth == APost \/ AList \/ AGet \/ APatch \/ APut \/ ADelete

SpecAuth == Init /\ [][NextAuth]_vars

----------------------------------------------------------------------------
(* Specification SpecConc: requests of one user run concurrently. Every    *)
(* await of a store call is a point where another request may run; each    *)
(* request has its own session (core/database.py get_session), and the     *)
(* store gives read-committed transactions: a statement sees what is       *)
(* committed when it runs, a write locks its row until the session ends.   *)

ConcToken == CHOOSE t \in OwnTokens : t.sub = "u1"

ConcCreateBodies == {[title |-> <<"a">>]}

ConcPatchBodies == {[title |-> <<"b">>], [title |-> <<"c">>, priority |-> "high"]}

ConcPutBodies == {[title |-> <<"c">>]}

ConcQueries == {DefaultQuery}

\* the requests on one idea are all on the idea created first
ConcIds == {1}

\* a write of a session that is flushed and not yet committed
NoWrite == [kind |-> "none", rows |-> {}]

\* get_session line 37: the session of a request that reached its handler
Session(op, idea_id, update_dict, q, pc) ==
    [op          |-> op,
     idea_id     |-> idea_id,
     update_dict |-> update_dict,
     pc          |-> pc,
     obj         |-> {},
     page        |-> <<>>,
     pending     |-> NoWrite,
     reply       |-> [Reply(op, ConcToken, ConcToken.sub, idea_id, 0)
                         EXCEPT !.query = q],
     raised      |-> FALSE,
     outcome     |-> "open",
     closed      |-> FALSE]

\* the sessions, other than session i, whose uncommitted write holds the row
Holders(i, idea_id) ==
    {j \in DOMAIN sessions \ {i} :
        /\ ~sessions[j].closed
        /\ \E r \in sessions[j].pending.rows : r.id = idea_id}

\* a request reaches its handler: get_session yields a new session
Begin(s) ==
    /\ requests < MaxRequests
    /\ requests' = requests + 1
    /\ sessions' = Append(sessions, s)
    /\ UNCHANGED <<ideas, nextId, clock, resp>>

CPost == \E body \in ConcCreateBodies :
            /\ nextId + Cardinality({j \in DOMAIN sessions : sessions[j].op = "POST"
                                        /\ sessions[j].pc = "write"}) <= MaxIdeas
            /\ Begin(Session("POST", 0, IdeaCreate(body), DefaultQuery, "write"))

CPatch == \E idea_id \in ConcIds, body \in ConcPatchBodies :
            Begin(Session("PATCH", idea_id, IdeaUpdateDump(body), DefaultQuery, "read"))

CPut == \E idea_id \in ConcIds, body \in ConcPutBodies :
            Begin(Session("PUT", idea_id, IdeaCreateDump(body), DefaultQuery, "read"))

CDelete == \E idea_id \in ConcIds :
            Begin(Session("DELETE", idea_id, <<>>, DefaultQuery, "read"))

CList == \E q \in ConcQueries :
            Begin(Session("LIST", 0, <<>>, q, "page"))

\* session i moves on
Advance(i, s) ==
    /\ sessions' = [sessions EXCEPT ![i] = s]
    /\ UNCHANGED <<ideas, resp, requests>>

\* update_idea line 168, delete_by_id_and_user line 158: the SELECT by id and
\* owner, answered from what is committed
SelectIdea == \E i \in DOMAIN sessions :
    LET s == sessions[i]
        found == get_by_id_and_user(ideas, s.idea_id, ConcToken.sub)
    IN  /\ s.pc = "read"
        /\ UNCHANGED <<nextId, clock>>
        /\ IF found = {}
           THEN Advance(i, [s EXCEPT !.pc = "end", !.raised = TRUE,
                                     !.reply.status = NotFound(ideas, s.idea_id),
                                     !.reply.reads = 1])
           ELSE Advance(i, [s EXCEPT !.pc = "write", !.obj = found])

\* an UPDATE statement that writes every column of the loaded object
UpdateRow_AllColumns(cur, obj, mine) == mine

\* repository update lines 65-66: the UPDATE statement of the flush sets the
\* attributes whose value differs from the loaded one; the other columns
\* keep what the row holds now
UpdateRow(cur, obj, mine) ==
    [f \in DOMAIN cur |-> IF mine[f] # obj[f] THEN mine[f] ELSE cur[f]]

\* service lines 36-55, repository create: INSERT at flush, refresh, then
\* IdeaResponse.model_validate, which raises when the response schema
\* rejects what the row holds (built = FALSE): the handler then ends in an
\* exception with its write flushed
FlushInsert == \E i \in DOMAIN sessions :
    LET s == sessions[i]
    IN  /\ s.pc = "write" /\ s.op = "POST"
        /\ \E t1 \in NowLater(clock) : \E t2 \in {t1} : \E built \in {TRUE} :
              LET idea == NewIdea(nextId, CreateOwner(ConcToken.sub, <<>>),
                                  s.update_dict, t1, t2)
              IN  /\ nextId' = nextId + 1
                  /\ clock' = t2
                  /\ Advance(i, [s EXCEPT
                        !.pc = "end",
                        !.pending = [kind |-> "insert", rows |-> {idea}],
                        !.raised = ~built,
                        !.reply = IF built
                                  THEN [@ EXCEPT !.status = 201, !.idea_id = idea.id,
                                                 !.items = <<IdeaResponse(idea)>>,
                                                 !.writes = 1, !.reads = 1]
                                  ELSE [@ EXCEPT !.status = 500, !.writes = 1,
                                                 !.reads = 1]])

\* a flush that inserts the loaded object when its row is gone
Matched_OrInserted(cur, obj) == IF cur = {} THEN {obj} ELSE cur

\* repository update line 66: the flush issues UPDATE ... WHERE id = the
\* object's id, which matches the row the table holds now under that id, or
\* no row
Matched(cur, obj) == cur

\* update_idea lines 177-195, repository update: setattr, UPDATE at flush
\* (it waits for the row's lock; no row matched raises StaleDataError; a null
\* in a NOT NULL column raises IntegrityError), refresh, response
FlushUpdate == \E i \in DOMAIN sessions :
    LET s == sessions[i]
        cur == {r \in ideas : r.id = s.idea_id}
    IN  /\ s.pc = "write" /\ s.op \in {"PATCH", "PUT"}
        /\ Holders(i, s.idea_id) = {}
        /\ UNCHANGED nextId
        /\ \E obj \in s.obj : \E t \in NowLater(clock) : \E built \in BOOLEAN :
              LET mine == SetAttrs(obj, s.update_dict, t)
              IN  /\ clock' = t
                  /\ IF Matched(cur, obj) = {} \/ ~FlushOk(mine)
                     THEN /\ built
                          /\ Advance(i, [s EXCEPT !.pc = "end", !.raised = TRUE,
                                                  !.reply.status = 500,
                                                  !.reply.reads = 1,
                                                  !.reply.writes = 1])
                     ELSE \E row \in Matched(cur, obj) :
                            LET new == UpdateRow(row, obj, mine)
                            IN  Advance(i, [s EXCEPT
                                   !.pc = "end",
                                   !.pending = [kind |-> "update", rows |-> {new}],
                                   !.raised = ~built,
                                   !.reply = IF built
                                             THEN [@ EXCEPT !.status = 200,
                                                            !.items = <<IdeaResponse(new)>>,
                                                            !.reads = 2, !.writes = 1]
                                             ELSE [@ EXCEPT !.status = 500,
                                                            !.reads = 2, !.writes = 1]])

\* delete_by_id_and_user lines 162-164: session.delete and flush. The DELETE
\* waits for the row's lock; when it matches no row the session only warns
\* (the mapper has no version column) and the handler goes on
FlushDelete == \E i \in DOMAIN sessions :
    LET s == sessions[i]
        cur == {r \in ideas : r.id = s.idea_id}
    IN  /\ s.pc = "write" /\ s.op = "DELETE"
        /\ Holders(i, s.idea_id) = {}
        /\ UNCHANGED <<nextId, clock>>
        /\ Advance(i, [s EXCEPT !.pc = "end",
                                 !.pending = [kind |-> IF cur = {} THEN "none"
                                                       ELSE "delete",
                                              rows |-> cur],
                                 !.reply.status = 204, !.reply.reads = 1,
                                 !.reply.writes = 1])

\* list_ideas lines 115-125: the page query
SelectPage == \E i \in DOMAIN sessions :
    LET s == sessions[i]
        q == s.reply.query
        sq == [q EXCEPT !.limit = ClampLimit(q.limit), !.tags = TagsList(q.tags)]
    IN  /\ s.pc = "page"
        /\ UNCHANGED <<nextId, clock>>
        /\ \E page \in get_by_user(ideas, ConcToken.sub, sq) :
              Advance(i, [s EXCEPT !.pc = "count", !.page = page])

\* list_ideas lines 128-145: the count query, then the response
SelectCount == \E i \in DOMAIN sessions :
    LET s == sessions[i]
        q == s.reply.query
        sq == [q EXCEPT !.limit = ClampLimit(q.limit), !.tags = TagsList(q.tags)]
        total == count_by_user(ideas, ConcToken.sub, sq)
    IN  /\ s.pc = "count"
        /\ UNCHANGED <<nextId, clock>>
        /\ Advance(i, [s EXCEPT
              !.pc = "end",
              !.reply = [@ EXCEPT !.status = 200,
                                  !.items = [k \in 1..Len(s.page) |->
                                                IdeaResponse(s.page[k])],
                                  !.total = total,
                                  !.limit = sq.limit,
                                  !.offset = sq.offset,
                                  !.has_more = (sq.offset + Len(s.page)) < total,
                                  !.reads = 2]])

\* the table after a session's write is committed
Committed(table, w) ==
    IF w.kind = "none" THEN table
    ELSE IF w.kind = "insert" THEN table \cup w.rows
    ELSE IF w.kind = "delete" THEN {r \in table : \A d \in w.rows : r.id # d.id}
    ELSE {r \in table : \A d \in w.rows : r.id # d.id} \cup w.rows

\* a session that is closed without a commit when the handler returned
get_session_NoCommit(table, s) ==
    [table |-> table, outcome |-> IF s.raised THEN "rolled_back" ELSE "committed"]

\* get_session lines 38-45: commit after the handler returned, rollback when
\* it raised
get_session(table, s) ==
    IF s.raised
    THEN [table |-> table, outcome |-> "rolled_back"]
    ELSE [table |-> Committed(table, s.pending), outcome |-> "committed"]

\* the handler is over: commit or rollback, close, and the response is sent
CloseSession == \E i \in DOMAIN sessions :
    LET s == sessions[i]
        end == get_session(ideas, s)
    IN  /\ s.pc = "end"
        /\ ideas' = end.table
        /\ resp' = s.reply
        /\ sessions' = [sessions EXCEPT ![i] = [s EXCEPT !.pc = "closed",
                                                         !.outcome = end.outcome,
                                                         !.closed = TRUE]]
        /\ UNCHANGED <<nextId, clock, requests>>

InitConc ==
    /\ ideas = {}
    /\ nextId = 1
    /\ clock = 0
    /\ resp = NoReply
    /\ requests = 0
    /\ sessions = <<>>

NextConc ==
    \/ CPost \/ CPatch \/ CPut \/ CDelete \/ CList
    \/ SelectIdea \/ FlushInsert \/ FlushUpdate \/ FlushDelete
    \/ SelectPage \/ SelectCount \/ CloseSession

SpecConc == InitConc /\ [][NextConc]_vars

----------------------------------------------------------------------------
(* Specification SpecStore: IdeaRepository.get_by_user and count_by_user   *)
(* called directly (below the endpoint's validation) on a store of up to   *)
(* three ideas of one user, page after page at consecutive offsets.        *)

StoreRows ==
    {NewIdea(1, "u1", IdeaCreate([title |-> <<"a">>, notes |-> <<"b">>]), 1, 1),
     NewIdea(2, "u1", IdeaCreate([title |-> <<"b">>, notes |-> <<"a">>,
                                  tags |-> <<<<"a">>>>]), 2, 2),
     NewIdea(3, "u1", IdeaCreate([title |-> <<"a">>, priority |-> "high"]), 3, 3)}

StoreSorts ==
    {"created_at", "updated_at", "title", "priority", "stage",
     "user_id", "notes", "tags", "bogus"}

StoreLimits == {1, 2, 100}

\* three ideas were created, and any of them deleted since
InitStore ==
    /\ ideas \in SUBSET StoreRows
    /\ nextId = 4
    /\ clock = 3
    /\ resp = NoReply
    /\ requests = 0
    /\ sessions = <<>>

\* the result of the calls made so far with one query: the rows of the pages
\* one after the other, and whether the last page was full
Pages(q, rows, total, full) ==
    [Reply("STORE", ConcToken, ConcToken.sub, 0, 0) EXCEPT
        !.query = q, !.items = rows, !.total = total, !.limit = q.limit,
        !.offset = q.offset, !.has_more = full]

\* get_by_user and count_by_user with offset 0
StoreList ==
    /\ requests < MaxRequests
    /\ requests' = requests + 1
    /\ UNCHANGED <<ideas, nextId, clock, sessions>>
    /\ \E sort \in StoreSorts, order \in {"asc", "desc"}, limit \in StoreLimits :
          LET q == [DefaultQuery EXCEPT !.sort = sort, !.order = order,
                                        !.limit = limit, !.tags = NoneTags]
          IN  \E page \in get_by_user(ideas, ConcToken.sub, q) :
                resp' = Pages(q, page, count_by_user(ideas, ConcToken.sub, q),
                              Len(page) = limit)

\* get_by_user again, with the same arguments and the offset moved by limit
StoreNext ==
    /\ resp.op = "STORE"
    /\ resp.has_more
    /\ UNCHANGED <<ideas, nextId, clock, sessions, requests>>
    /\ LET q == [resp.query EXCEPT !.offset = @ + resp.query.limit]
       IN  \E page \in get_by_user(ideas, ConcToken.sub, q) :
             resp' = Pages(q, resp.items \o page, resp.total,
                           Len(page) = q.limit)

NextStore == StoreList \/ StoreNext

SpecStore == InitStore /\ [][NextStore]_vars

----------------------------------------------------------------------------
(* Specification SpecLimits: users create, patch and replace their own     *)
(* ideas with bodies at and beyond the limits of the schemas.              *)

\* a text of n characters
RECURSIVE LongText(_)
LongText(n) ==
    IF n = 0 THEN <<>>
    ELSE IF n % 2 = 0 THEN LET half == LongText(n \div 2) IN half \o half
    ELSE Append(LongText(n - 1), "a")

LongestTitle == LongText(MaxTitleLen)

TooLongTitle == LongText(MaxTitleLen + 1)

TooLongNotes == LongText(MaxNotesLen + 1)

LimitCreateBodies ==
    {[title |-> <<"a">>],
     [title |-> LongestTitle, stage |-> "draft"],
     [title |-> TooLongTitle],
     [title |-> <<"a">>, notes |-> TooLongNotes],
     [title |-> <<" ", " ">>],
     [title |-> <<>>],
     [title |-> <<"a">>, stage |-> "bogus"],
     [title |-> <<"a">>, priority |-> "bogus"]}

LimitPatchBodies ==
    {[priority |-> "high"],
     [title |-> LongestTitle],
     [title |-> TooLongTitle],
     [notes |-> TooLongNotes],
     [title |-> <<" ", " ">>],
     [title |-> <<>>],
     [stage |-> "bogus"],
     [priority |-> "bogus"]}

MPost == Handled /\ \E token \in OwnTokens, body \in LimitCreateBodies :
            create_idea(token, token.sub, body)

MPatch == Handled /\ \E token \in OwnTokens, idea_id \in IdeaIds,
             body \in LimitPatchBodies :
            update_idea_partial(token, token.sub, idea_id, body)

MPut == Handled /\ \E token \in OwnTokens, idea_id \in IdeaIds,
           body \in LimitCreateBodies :
            update_idea_full(token, token.sub, idea_id, body)

NextLimits == MPost \/ MPatch \/ MPut

SpecLimits == Init /\ [][NextLimits]_vars

----------------------------------------------------------------------------
(* Claims *)

\* the step handled a request
Step == requests' # requests

\* the request handled last came with a valid token for another user's path
Mismatch(r) == r.current_user # None /\ r.user_id # r.current_user

\* the rows with a given id
Row(table, id) == {r \in table : r.id = id}

C4_OwnerNeverChanges ==
    [][\A old \in ideas : \A new \in ideas' :
          new.id = old.id => new.user_id = old.user_id]_vars

\* a PATCH whose body named another owner succeeded (it set the title "b")
C4_Witness ==
    /\ resp.op = "PATCH"
    /\ resp.status = 200
    /\ resp.current_user = "u1"
    /\ \E r \in Row(ideas, resp.idea_id) : r.title = <<"b">> /\ r.user_id = "u1"

\* C5: create_idea stores the new idea with owner equal to the verified
\* caller's identity, whatever owner value the client supplies in the body.
C5_CreateOwnerIsCaller ==
    (resp.op = "POST" /\ resp.status = 201) =>
        /\ Row(ideas, resp.idea_id) # {}
        /\ \A r \in Row(ideas, resp.idea_id) : r.user_id = resp.current_user
        /\ resp.items[1].user_id = resp.current_user

\* u1 created an idea from the body that carries user_id "u2"
C5_Witness ==
    /\ resp.op = "POST"
    /\ resp.status = 201
    /\ resp.current_user = "u1"
    /\ \E r \in Row(ideas, resp.idea_id) : r.title = <<"A", "b">> /\ r.user_id = "u1"

\* what a successful PATCH with this body may change of idea id
PatchFrame(id, body) ==
    /\ \A r \in ideas : r.id # id => r \in ideas'
    /\ \A r \in ideas' : r.id # id => r \in ideas
    /\ \E old \in Row(ideas, id) : \E new \in Row(ideas', id) :
          /\ \A f \in (IdeaColumns \ {"updated_at"}) \ DOMAIN body :
                new[f] = old[f]
          /\ new.updated_at = clock'
          /\ new.updated_at >= old.updated_at
          /\ DOMAIN body = {"priority"} => new.priority = body.priority

\* C6: a PATCH on an existing idea that supplies only priority changes
\* priority and updated_at and leaves title, notes, stage, tags and due_date
\* unchanged; in general a PATCH changes only the fields present in the
\* patch plus updated_at.
C6_PatchChangesOnlyGivenFields ==
    [][(Step /\ resp'.op = "PATCH" /\ resp'.status = 200) =>
          \A token \in Tokens, body \in PatchBodies :
              update_idea_partial(token, resp'.user_id, resp'.idea_id, body)
                  => PatchFrame(resp'.idea_id, body)]_vars

\* a priority-only PATCH of the idea created with notes, stage, tags, due date
C6_Witness ==
    /\ resp.op = "PATCH"
    /\ resp.status = 200
    /\ resp.items[1].priority = "high"
    /\ resp.items[1].title = <<"A", "b">>
    /\ resp.items[1].notes = <<"b">>
    /\ resp.items[1].stage = "draft"
    /\ resp.items[1].tags = <<"a", ",", "b">>
    /\ resp.items[1].due_date = 1
    /\ resp.items[1].updated_at > resp.items[1].created_at

\* the list request handled last was served
Served(r) == r.op = "LIST" /\ r.status = 200

\* the ids of the items of a response
ItemIds(r) == {r.items[i].id : i \in 1..Len(r.items)}

\* the caller's rows that pass the search, stage and priority filters
OwnFiltered(r) ==
    {row \in ideas :
        /\ row.user_id = r.current_user
        /\ SearchClause(row, r.query.search)
        /\ StageClause(row, r.query.stage)
        /\ PriorityClause(row, r.query.priority)}

\* C3: after any sequence of creates, updates and deletes by several users,
\* list_ideas for caller U returns only ideas whose owner is U (each the view
\* of a stored row of U, none twice) and its total counts only U's ideas that
\* pass the filters, for every combination of filters, sort and pagination.
C3_ListOnlyOwnIdeas ==
    Served(resp) =>
        /\ \A i \in 1..Len(resp.items) :
              /\ resp.items[i].user_id = resp.current_user
              /\ \E row \in ideas :
                    /\ row.user_id = resp.current_user
                    /\ IdeaResponse(row) = resp.items[i]
        /\ Cardinality(ItemIds(resp)) = Len(resp.items)
        /\ resp.total =
              Cardinality({row \in OwnFiltered(resp) :
                              TagsClause(row, TagsList(resp.query.tags))})

\* u1 listed with the stage, priority and tags filters set and got its idea,
\* while u2 holds an idea that passes the same filters
C3_Witness ==
    /\ Served(resp)
    /\ resp.current_user = "u1"
    /\ resp.query.stage = "draft"
    /\ resp.query.priority = "high"
    /\ resp.query.tags = <<"a">>
    /\ resp.total = 1
    /\ Len(resp.items) = 1
    /\ \E row \in ideas :
          /\ row.user_id = "u2"
          /\ row.stage = "draft"
          /\ row.priority = "high"
          /\ Contains(row.tags, <<"a">>)

\* C7: for every store content, limit and offset, the page returned by
\* list_ideas satisfies has_more == (offset + returned_count < total) and
\* returned_count <= limit.
C7_PaginationInvariant ==
    Served(resp) =>
        /\ resp.has_more = (resp.query.offset + Len(resp.items) < resp.total)
        /\ Len(resp.items) <= resp.query.limit
        /\ resp.offset = resp.query.offset

\* a first page of one item out of two: there is more
C7_Witness ==
    /\ Served(resp)
    /\ resp.query.limit = 1
    /\ resp.query.offset = 0
    /\ Len(resp.items) = 1
    /\ resp.total = 2
    /\ resp.has_more

\* C8 as stated: a list request with a limit outside [1,100] (for example
\* limit=0 or limit=101) is clamped into [1,100] and served, not rejected;
\* the limit reported in the response is always within [1,100].
C8_Original ==
    (/\ resp.op = "LIST"
     /\ resp.current_user = resp.user_id
     /\ resp.query.offset >= 0
     /\ resp.query.limit \notin 1..100)
    => (resp.status = 200 /\ resp.limit \in 1..100)

\* C8 as amended: a list request with a limit outside [1,100] is rejected
\* with a validation error (422) before the service and the store are
\* reached; a served list response reports the requested limit, which is
\* always within [1,100].
C8_LimitOutOfRangeRejected ==
    resp.op = "LIST" =>
        /\ resp.query.limit \notin 1..100 =>
              /\ resp.status = 422
              /\ resp.items = <<>>
              /\ resp.reads = 0
        /\ resp.status = 200 =>
              /\ resp.limit \in 1..100
              /\ resp.limit = resp.query.limit

\* limit=101 with a valid offset was rejected while the caller has an idea
C8_Witness ==
    /\ resp.op = "LIST"
    /\ resp.query.limit = 101
    /\ resp.query.offset = 0
    /\ resp.status = 422
    /\ \E row \in ideas : row.user_id = resp.current_user

\* C9: a list request with a negative offset is rejected as a validation
\* error (422) and never reaches the store: no read, no write, no item.
C9_NegativeOffsetRejected ==
    (resp.op = "LIST" /\ resp.query.offset < 0) =>
        /\ resp.status = 422
        /\ resp.reads = 0
        /\ resp.writes = 0
        /\ resp.items = <<>>
        /\ resp.total = 0

\* offset=-1 with a valid limit was rejected while the caller has an idea
C9_Witness ==
    /\ resp.op = "LIST"
    /\ resp.query.offset = -1
    /\ resp.query.limit = 1
    /\ resp.status = 422
    /\ \E row \in ideas : row.user_id = resp.current_user

\* the tags of a stored row: its comma-joined column split again
RowTags(row) ==
    IF row.tags = NoneText \/ row.tags = <<>> THEN {}
    ELSE LET parts == SplitComma(row.tags)
         IN  {parts[i] : i \in 1..Len(parts)}

\* the tags a list request supplies
QueryTags(q) ==
    LET tags == TagsList(q.tags)
    IN  IF tags = NoneTags THEN {} ELSE {tags[i] : i \in 1..Len(tags)}

\* C10: tag filtering has OR semantics: when listing with a non-empty set of
\* tags, an idea of the caller matches if and only if it has at least one of
\* the supplied tags (it need not have all of them); the same holds for the
\* total count.
C10_TagsOrSemantics ==
    (Served(resp) /\ QueryTags(resp.query) # {}) =>
        LET matching == {row \in OwnFiltered(resp) :
                            RowTags(row) \cap QueryTags(resp.query) # {}}
        IN  /\ resp.total = Cardinality(matching)
            /\ ItemIds(resp) \subseteq {row.id : row \in matching}
            /\ (resp.query.offset = 0 /\ resp.query.limit >= Cardinality(matching))
                  => ItemIds(resp) = {row.id : row \in matching}

\* C11: tags round-trip: creating an idea with a list of tags and reading it
\* back in the create response yields the same tags in the same insertion
\* order, regardless of the comma-separated storage form, for every tag list
\* accepted at creation.
C11_TagsRoundTrip ==
    [][\A token \in Tokens, user_id \in Users, body \in CreateBodies :
          (/\ create_idea(token, user_id, body)
           /\ resp'.status = 201)
          => resp'.items[1].tags = IdeaCreate(body).tags]_vars

\* a body that carries a stage or a priority outside the enumerations
BadEnum(body) ==
    \/ Has(body, "stage") /\ body.stage \notin StageEnum
    \/ Has(body, "priority") /\ body.priority \notin PriorityEnum

\* the request of this step was refused and left the store as it was
Refused == resp'.status \in {404, 422, 500} /\ ideas' = ideas

C13_TitleNeverBlank ==
    \A r \in ideas : r.title # NoneText /\ Strip(r.title) # <<>>

\* a PATCH set the title " b", stored as "b", on an idea created as "a"
C13_Witness ==
    /\ resp.op = "PATCH"
    /\ resp.status = 200
    /\ \E r \in Row(ideas, resp.idea_id) :
          r.title = <<"b">> /\ r.stage = "outline" /\ r.priority = "medium"

\* an id that was given to an idea which is no longer stored
Deleted(id) == id < nextId /\ Row(ideas, id) = {}

\* the request of this step addressed one idea on the caller's own path and
\* passed validation
OwnItemRequest ==
    /\ Step
    /\ resp'.op \in {"GET", "PATCH", "PUT", "DELETE"}
    /\ resp'.current_user # None
    /\ resp'.user_id = resp'.current_user
    /\ resp'.status # 422

\* C14: after a DELETE of an idea by its owner succeeds (204), every later
\* (well-formed) GET, PATCH, PUT or DELETE of the same id by the same user
\* returns 404; there is no soft delete: the row is gone with the 204, no
\* later request brings it back, and it never reappears in a list.
C14_DeletedStaysDeleted ==
    [][/\ (Step /\ resp'.op = "DELETE" /\ resp'.status = 204)
             => (Row(ideas, resp'.idea_id) # {} /\ Row(ideas', resp'.idea_id) = {})
       /\ \A id \in IdeaIds : Deleted(id) => Row(ideas', id) = {}
       /\ (OwnItemRequest /\ Deleted(resp'.idea_id))
             => (resp'.status = 404 /\ resp'.items = <<>>)
       /\ (Step /\ resp'.op = "LIST" /\ resp'.status = 200)
             => \A id \in ItemIds(resp') : ~Deleted(id)]_vars

\* the owner's PUT of an id it had deleted was answered 404
C14_Witness ==
    /\ resp.op = "PUT"
    /\ resp.status = 404
    /\ resp.user_id = resp.current_user
    /\ Deleted(resp.idea_id)
    /\ resp.idea_id = 1
    /\ nextId = 2

\* C15: every idea returned by a successful create has created_at equal to
\* updated_at.
C15_CreatedEqualsUpdated ==
    (resp.op = "POST" /\ resp.status = 201) =>
        resp.items[1].created_at = resp.items[1].updated_at

StoredDefault(f) ==
    CASE f = "notes" -> NoneText
      [] f = "stage" -> "idea"
      [] f = "priority" -> "medium"
      [] f = "tags" -> <<>>
      [] f = "due_date" -> NoneDate

Owned(table, id, user_id) == {r \in table : r.id = id /\ r.user_id = user_id}

C19_Unauthenticated401 ==
    [][(Step /\ resp'.current_user = None) =>
          /\ resp'.status = 401
          /\ resp'.www_authenticate
          /\ resp'.items = <<>>
          /\ resp'.reads = 0
          /\ resp'.writes = 0
          /\ ideas' = ideas]_vars

\* x occurs in the text s, letter case ignored
SubstringCI(x, s) ==
    /\ s # NoneText
    /\ \E i \in 0..(Len(s) - Len(x)) :
          Lower(SubSeq(s, i + 1, i + Len(x))) = Lower(x)

\* C20: a list with both a search string and a stage returns exactly the
\* caller's ideas that satisfy both filters (search string is a
\* case-insensitive substring of title or of notes, and stage equal), and
\* when no sort is given (created_at, desc) the items are ordered by
\* created_at descending.
C20_SearchAndStage ==
    (/\ Served(resp)
     /\ resp.query.search # NoneText
     /\ resp.query.stage # None
     /\ resp.query.priority = None
     /\ resp.query.tags = NoneText)
    => LET matching ==
               {row \in ideas :
                   /\ row.user_id = resp.current_user
                   /\ row.stage = resp.query.stage
                   /\ \/ SubstringCI(resp.query.search, row.title)
                      \/ SubstringCI(resp.query.search, row.notes)}
       IN  /\ resp.total = Cardinality(matching)
           /\ ItemIds(resp) \subseteq {row.id : row \in matching}
           /\ (resp.query.offset = 0 /\ resp.query.limit >= Cardinality(matching))
                 => ItemIds(resp) = {row.id : row \in matching}
           /\ (resp.query.sort = "created_at" /\ resp.query.order = "desc")
                 => \A i, j \in 1..Len(resp.items) :
                       i < j => resp.items[i].created_at >= resp.items[j].created_at

\* the rows the page query of a served list selects before ordering and
\* pagination: the request's filters with limit, offset and sort set aside
PageMatches(r) ==
    {row \in ideas :
        GetByUserWhere(row, r.current_user,
                       [DefaultQuery EXCEPT !.search = r.query.search,
                                            !.stage = r.query.stage,
                                            !.priority = r.query.priority,
                                            !.tags = TagsList(r.query.tags)])}

NotFoundReply(r) ==
    [NoReply EXCEPT !.op = r.op, !.current_user = r.current_user, !.user_id = r.user_id,
                    !.idea_id = r.idea_id, !.status = 404, !.reads = 1]

Closes(i) == sessions[i].pc = "end" /\ sessions'[i].closed

\* C23: every request that reaches its handler has one session; when the
\* handler returned the session's write is committed (it is in the store
\* right after), when the handler raised (404, 500) the session is rolled
\* back and the store is as it was, write flushed or not; the response is an
\* error exactly when the handler raised; and no session stays open: when no
\* step is possible any more every session is closed.
C23_SessionPerRequest ==
    /\ [](/\ Len(sessions) = requests
          /\ \A i \in DOMAIN sessions :
                /\ sessions[i].closed <=> sessions[i].outcome # "open"
                /\ sessions[i].closed =>
                      (sessions[i].outcome = "rolled_back" <=> sessions[i].reply.status >= 400)
          /\ (~ENABLED NextConc) => \A i \in DOMAIN sessions : sessions[i].closed)
    /\ [][\A i \in DOMAIN sessions :
            Closes(i) =>
              /\ resp' = sessions[i].reply
              /\ IF sessions[i].raised
                 THEN ideas' = ideas /\ sessions'[i].outcome = "rolled_back"
                 ELSE /\ ideas' = Committed(ideas, sessions[i].pending)
                      /\ sessions'[i].outcome = "committed"
                      /\ sessions[i].pending.kind \in {"insert", "update"}
                            => sessions[i].pending.rows \subseteq ideas']_vars

\* a PATCH whose handler raised after its UPDATE was flushed is closed, rolled
\* back, and the row it wrote is not in the store
C23_Witness ==
    \E i \in DOMAIN sessions :
        /\ sessions[i].op = "PATCH"
        /\ sessions[i].closed
        /\ sessions[i].reply.status = 500
        /\ sessions[i].pending.kind = "update"
        /\ sessions[i].outcome = "rolled_back"
        /\ sessions[i].pending.rows \cap ideas = {}

\* C24: concurrent PATCH requests on one idea are not coordinated. A PATCH
\* that read the idea and whose handler returned commits, whatever was
\* committed since it read: in the stored row every column it changed has its
\* value, and every other column has the value the row held just before (no
\* version check, the last writer of a column wins). The lost update is the
\* reachable state C24_Witness.
C24_LostUpdate ==
    [][\A i \in DOMAIN sessions :
          (Closes(i) /\ sessions[i].op = "PATCH" /\ ~sessions[i].raised) =>
             \E cur \in Row(ideas, sessions[i].idea_id) :
             \E new \in Row(ideas', sessions[i].idea_id) :
             \E obj \in sessions[i].obj :
                /\ resp'.status = 200
                /\ \A f \in DOMAIN sessions[i].update_dict :
                      sessions[i].update_dict[f] # obj[f] => new[f] = sessions[i].update_dict[f]
                /\ \A f \in DOMAIN new \ (DOMAIN sessions[i].update_dict \cup {"updated_at"}) :
                      new[f] = cur[f]]_vars

\* two PATCH requests read the same row of the idea (neither saw the other's
\* write), both were answered 200, and the stored title is not the one the
\* first of them set
C24_Witness ==
    \E i, j \in DOMAIN sessions :
        /\ i # j
        /\ sessions[i].op = "PATCH" /\ sessions[j].op = "PATCH"
        /\ sessions[i].idea_id = sessions[j].idea_id
        /\ sessions[i].obj = sessions[j].obj
        /\ sessions[i].closed /\ sessions[j].closed
        /\ sessions[i].reply.status = 200 /\ sessions[j].reply.status = 200
        /\ \E row \in Row(ideas, sessions[i].idea_id) :
              /\ row.title # sessions[i].update_dict.title
              /\ row.title = sessions[j].update_dict.title

\* the sort fields the endpoint accepts
SortFields == {"created_at", "updated_at", "title", "priority", "stage"}

\* C25: a store list whose sort field name is not one of created_at,
\* updated_at, title, priority, stage returns its rows ordered by created_at,
\* whatever the name (user_id, notes and tags included).
C25_UnknownSortByCreatedAt ==
    (resp.op = "STORE" /\ resp.query.sort \notin SortFields /\ resp.offset = 0) =>
        \A i, j \in 1..Len(resp.items) :
            i < j => InOrder("created_at", resp.query.order, resp.items[i], resp.items[j])

\* C25 for the names that are no attribute of Idea: such a list is ordered by
\* created_at.
C25_NoAttributeByCreatedAt ==
    (resp.op = "STORE" /\ resp.query.sort \notin IdeaColumns /\ resp.offset = 0) =>
        \A i, j \in 1..Len(resp.items) :
            i < j => InOrder("created_at", resp.query.order, resp.items[i], resp.items[j])

\* a body with an empty or whitespace-only title, a title over 200 characters,
\* notes over 5000 characters, or a stage or priority that is no member of
\* its enumeration
InvalidBody(body) ==
    \/ /\ Has(body, "title") /\ body.title # NoneText
       /\ (Len(body.title) > MaxTitleLen \/ Strip(body.title) = <<>>)
    \/ Has(body, "notes") /\ body.notes # NoneText /\ Len(body.notes) > MaxNotesLen
    \/ Has(body, "stage") /\ body.stage \notin StageEnum \cup {None}
    \/ Has(body, "priority") /\ body.priority \notin PriorityEnum \cup {None}

\* the invalid bodies among those of specification SpecLimits
InvalidCreateBodies == {body \in LimitCreateBodies : InvalidBody(body)}

InvalidPatchBodies == {body \in LimitPatchBodies : InvalidBody(body)}

\* the request of this step was answered 422 before any store call
Unprocessable ==
    resp'.status = 422 /\ resp'.reads = 0 /\ resp'.writes = 0 /\ ideas' = ideas

\* C26: a create, PATCH or PUT of an authenticated caller whose body is
\* invalid (empty or whitespace-only title, title over 200 characters, notes
\* over 5000 characters, bad stage or priority value) is answered 422 with no
\* store read or write, and the store is unchanged.
C26_ValidationBeforeStore ==
    [][/\ \A token \in OwnTokens, body \in InvalidCreateBodies :
             (resp'.op = "POST" /\ create_idea(token, token.sub, body))
                => Unprocessable
       /\ \A token \in OwnTokens, idea_id \in IdeaIds, body \in InvalidPatchBodies :
             (resp'.op = "PATCH" /\ update_idea_partial(token, token.sub, idea_id, body))
                => Unprocessable
       /\ \A token \in OwnTokens, idea_id \in IdeaIds, body \in InvalidCreateBodies :
             (resp'.op = "PUT" /\ update_idea_full(token, token.sub, idea_id, body))
                => Unprocessable]_vars

\* a PUT on a stored idea of the caller was answered 422 without a store call
C26_Witness ==
    /\ resp.op = "PUT"
    /\ resp.status = 422
    /\ resp.reads = 0 /\ resp.writes = 0
    /\ \E r \in Row(ideas, resp.idea_id) : r.user_id = resp.current_user

\* C27: a list response with a non-empty items list satisfies
\* offset + len(items) <= total, also when another request created or deleted
\* a matching idea of the caller between the page query and the count query.
C27_PageWithinTotal ==
    (resp.op = "LIST" /\ resp.status = 200 /\ resp.items # <<>>) =>
        resp.offset + Len(resp.items) <= resp.total

\* the calls at offsets 0, limit, 2*limit, ... went on to a page that was not
\* full
WalkDone(r) == r.op = "STORE" /\ ~r.has_more

\* the ideas of the caller that pass the filters of the walk
WalkMatches(r) == {row \in ideas : GetByUserWhere(row, r.current_user, r.query)}

\* C28: with no writes in between, listing with fixed filters, sort (one of
\* the five sort fields) and limit at consecutive offsets 0, limit, 2*limit,
\* ... returns every matching idea of the caller exactly once, also when
\* several ideas have equal values of the sort field.
C28_PagesPartition ==
    (WalkDone(resp) /\ resp.query.sort \in SortFields) =>
        /\ Len(resp.items) = Cardinality(WalkMatches(resp))
        /\ {resp.items[i] : i \in 1..Len(resp.items)} = WalkMatches(resp)

\* C28 where the rows differ in the sort field (created_at, updated_at): the
\* pages hold every matching idea exactly once.
C28_PagesPartitionDistinctKeys ==
    (WalkDone(resp) /\ resp.query.sort \in {"created_at", "updated_at"}) =>
        /\ Len(resp.items) = Cardinality(WalkMatches(resp))
        /\ {resp.items[i] : i \in 1..Len(resp.items)} = WalkMatches(resp)

\* C29: of two DELETE requests of the owner for the same idea that run
\* concurrently, at most one reports 204, and the other reports 404.
C29_OneDeleteSucceeds ==
    \A i, j \in DOMAIN sessions :
        (/\ i # j
         /\ sessions[i].op = "DELETE" /\ sessions[j].op = "DELETE"
         /\ sessions[i].idea_id = sessions[j].idea_id
         /\ sessions[i].closed /\ sessions[j].closed
         /\ sessions[i].reply.status = 204)
        => sessions[j].reply.status = 404

\* C30: an update never re-creates a deleted idea. When a PATCH or PUT that
\* read idea X reaches its end while X is gone from the store (a DELETE of X
\* was committed after the read), X is still absent once the PATCH or PUT is
\* closed, and its response is an error, never a success carrying data that
\* is not stored.
C30_NoResurrection ==
    [][\A i \in DOMAIN sessions :
          (/\ Closes(i)
           /\ sessions[i].op \in {"PATCH", "PUT"}
           /\ sessions[i].obj # {}
           /\ Row(ideas, sessions[i].idea_id) = {})
          => /\ Row(ideas', sessions[i].idea_id) = {}
             /\ resp'.status >= 400
             /\ resp'.items = <<>>]_vars

\* a PATCH read the idea, a DELETE of the idea was answered 204 and removed
\* it, and the PATCH was then answered 500 with the idea absent
C30_Witness ==
    \E i, j \in DOMAIN sessions :
        /\ sessions[i].op = "PATCH" /\ sessions[j].op = "DELETE"
        /\ sessions[i].idea_id = sessions[j].idea_id
        /\ sessions[i].obj # {}
        /\ sessions[i].closed /\ sessions[j].closed
        /\ sessions[j].reply.status = 204 /\ sessions[j].pending.kind = "delete"
        /\ sessions[i].reply.status = 500 /\ sessions[i].pending.kind = "none"
        /\ Row(ideas, sessions[i].idea_id) = {}


====
